---- MODULE Spec2Model ----
(***************************************************************************)
(* ChessSpace room coordinator (src/server/server.ts): the socket.io       *)
(* handlers create_room, join_room, make_move, offer_draw, draw_response,  *)
(* resign_game and disconnect acting on the global `rooms` table.          *)
(*                                                                         *)
(* Node runs every handler to completion on one thread, so each handler is *)
(* one atomic action.                                                      *)
(*                                                                         *)
(* SpecSync adds the browser side (GameBoard, useChessEngine and           *)
(* useOnlineGame of src/unnamed/part_003) for two players of one room.     *)
(***************************************************************************)
EXTENDS Integers, Sequences, FiniteSets, TLC

(* ---------------------------- bounds ---------------------------------- *)
\* number of socket connections the server accepts during a run
NumConns == 3
\* number of intents (disconnections included) the server handles in a run
MaxIntents == 5
\* seconds on each clock when a game starts (the client gives 600)
StartTime == 2
\* number of getBestMove calls made on the Stockfish manager in a run
MaxRequests == 3

\* smallest room code: Math.floor(1000 + Math.random() * 9000)
FirstCode == 1000

\* the room codes Math.random draws in the model: the two smallest
Codes == {FirstCode, FirstCode + 1}
Conns == 1 .. NumConns
\* the display name each client types in: one per connection
DisplayNames == <<"Ann", "Bob", "Cat", "Dan", "Eve">>
NamesOf(id) == {DisplayNames[((id - 1) % Len(DisplayNames)) + 1]}

VARIABLES
  rooms,       \* the `rooms` object: room code -> {players, game, gameState}
  adapter,     \* socket.io room membership: room code -> sockets that joined
  sockets,     \* number of connections accepted so far (ids 1..sockets)
  connected,   \* ids of the sockets that are still connected
  out,         \* the emit calls of the handler that ran last, in order
  last,        \* the handler that ran last and what it resolved
  handled,     \* number of intents handled so far
  running,     \* the node process is alive
  clients,     \* the GameBoard of each browser that is followed
  uplink,      \* socket id -> intents the client emitted, not yet handled
  inbox,       \* socket id -> events the server emitted, not yet received
  stockfish    \* the StockfishManager singleton of a browser

serverVars == <<rooms, adapter, sockets, connected, out, last, handled, running>>
clientVars == <<clients, uplink, inbox, stockfish>>
vars == <<rooms, adapter, sockets, connected, out, last, handled, running,
          clients, uplink, inbox, stockfish>>

(* ------------------------ legality engine ----------------------------- *)
\* chess.js restricted to the four moves of the fool's mate:
\*   1. f3 e5 2. g4 Qh4#   (or 1. g4 e5 2. f3 Qh4#)
\* and to the capture that promotes the pawn at the end of the line
\*   1. h4 g5 2. hxg5 Nf6 3. gxf6 a6 4. fxe7 a5 5. exd8
\* A game is the list of the moves played from the initial position.
WhiteMoves == {<<"f2", "f3">>, <<"g2", "g4">>}
BlackMoves == {<<"e7", "e5">>, <<"d8", "h4">>}
PromotionMove == <<"e7", "d8">>
Promotions == {"undefined", "n"}
Moves == [sq : WhiteMoves \cup BlackMoves \cup {PromotionMove},
          promotion : Promotions]

\* the position in which White's pawn stands on e7, eight moves played
PromoLine ==
  << <<"h2", "h4">>, <<"g7", "g5">>, <<"h4", "g5">>, <<"g8", "f6">>,
     <<"g5", "f6">>, <<"a7", "a6">>, <<"f6", "e7">>, <<"a6", "a5">> >>

OnPromoLine(game) ==
  Len(game) >= Len(PromoLine) /\ SubSeq(game, 1, Len(PromoLine)) = PromoLine

\* a board on which White has already moved
NewChess_moved == <<<<"f2", "f3">>>>

\* new Chess(): the initial position, no move played
NewChess == <<>>

turn(game) == IF Len(game) % 2 = 0 THEN "w" ELSE "b"

Played(game, sq) == \E i \in 1..Len(game) : game[i] = sq

\* legal moves of the side to move, within the moves above
LegalMoves(game) ==
  IF OnPromoLine(game)
  THEN \* White may still push the f- and g-pawn or take on d8; Black's
       \* e-pawn and queen's diagonal are gone
       IF turn(game) = "w" /\ Len(game) = Len(PromoLine)
       THEN WhiteMoves \cup {PromotionMove}
       ELSE {}
  ELSE
  IF turn(game) = "w"
  THEN {sq \in WhiteMoves : ~Played(game, sq)}
  ELSE {sq \in BlackMoves :
          /\ ~Played(game, sq)
          \* the queen reaches h4 only through the square the e-pawn left
          /\ (sq = <<"d8", "h4">> => Played(game, <<"e7", "e5">>))}

Null == <<"null">>

\* the move takes a pawn to the last rank
IsPromotion(game, sq) == OnPromoLine(game) /\ sq = PromotionMove

\* the test of game.move on each generated move: same from and to, and,
\* when the generated move is a promotion, the same promotion piece
Matches(game, move) ==
  /\ move.sq \in LegalMoves(game)
  /\ IsPromotion(game, move.sq) => move.promotion # "undefined"

\* the move as the game records it: a promotion with its piece
Recorded(game, sq, piece) ==
  IF IsPromotion(game, sq) THEN <<sq[1], sq[2], piece>> ELSE sq

\* the move validated but not recorded in the room's game
ChessMove_lost(game, move) ==
  IF Matches(game, move) THEN game ELSE Null

\* game.move(move): the new game, or Null when the move is not legal
ChessMove(game, move) ==
  IF Matches(game, move)
  THEN Append(game, Recorded(game, move.sq, move.promotion))
  ELSE Null

\* game.isCheckmate(): within the four moves, the queen on h4 mates
isCheckmate(game) == Len(game) > 0 /\ game[Len(game)] = <<"d8", "h4">>

(* --------------------------- room table ------------------------------- *)
HasPlayer(room, id) == \E i \in 1..Len(room.players) : room.players[i].id = id

\* room.players[id]
PlayerOf(room, id) ==
  LET i == CHOOSE i \in 1..Len(room.players) : room.players[i].id = id
  IN  room.players[i]

\* Object.keys(room.players): insertion order
PlayerIds(room) == [i \in 1..Len(room.players) |-> room.players[i].id]

\* delete room.players[id]
RemovePlayer(room, id) ==
  LET keep == SelectSeq(room.players, LAMBDA p : p.id # id)
  IN  [room EXCEPT !.players = keep]

MinOf(S) == CHOOSE x \in S : \A y \in S : x <= y

\* the loop `for (const [id, room] of Object.entries(rooms))` with break:
\* room codes are integer keys, visited in ascending order; 0 when none
FindRoom(rs, id) ==
  LET mine == {c \in DOMAIN rs : HasPlayer(rs[c], id)}
  IN  IF mine = {} THEN 0 ELSE MinOf(mine)

\* the first player taken for the opponent, the caller included
FindOpponent_any(room, id) ==
  IF Len(room.players) = 0 THEN 0 ELSE room.players[1].id

\* playerIds.find(id => id !== socket.id); 0 when undefined
FindOpponent(room, id) ==
  LET others == {i \in 1..Len(room.players) : room.players[i].id # id}
  IN  IF others = {} THEN 0 ELSE room.players[MinOf(others)].id

\* the write to a live room lost, as when a second handler had read the
\* room before the first one wrote it
SetRoom_lost(rs, code, room) ==
  [c \in DOMAIN rs \cup {code} |-> IF c \in DOMAIN rs THEN rs[c] ELSE room]

\* rooms[code] = room
SetRoom(rs, code, room) ==
  [c \in DOMAIN rs \cup {code} |-> IF c = code THEN room ELSE rs[c]]

DeleteRoom(rs, code) == [c \in DOMAIN rs \ {code} |-> rs[c]]

(* ----------------------------- emits ---------------------------------- *)
\* the event sent to every connected socket instead
ToSelf_all(id) == {id} \cup connected

\* socket.emit(ev, data)
ToSelf(id) == {id}
\* socket.to(roomId).emit: the sockets joined to the room, sender excluded
ToRoomExcept(ad, code, id) == ad[code] \ {id}
\* io.to(roomId).emit: every socket joined to the room
ToRoom(ad, code) == ad[code]
\* socket.to(opponentId).emit: the opponent's own room, empty once it left
ToSocket(conn, id) == {id} \cap conn

Emit(to, ev, data) == [to |-> to, ev |-> ev, data |-> data]
Error(id, message) == Emit(ToSelf(id), "error", [message |-> message])

\* new StockfishManager(): initWorker has posted 'uci' and 'isready'
NewStockfish ==
  [worker |-> TRUE, isReady |-> FALSE,
   bestMoveResolver |-> 0, bestMoveRejecter |-> 0,
   posted |-> <<[cmd |-> "uci", arg |-> ""], [cmd |-> "isready", arg |-> ""]>>,
   promises |-> <<>>,
   event |-> [op |-> "new", line |-> <<>>]]

\* no browser is followed: the intents of every socket are arbitrary
NoClients ==
  /\ stockfish = NewStockfish
  /\ clients = [c \in {} |-> 0]
  /\ uplink = [c \in {} |-> <<>>]
  /\ inbox = [c \in {} |-> <<>>]

Init ==
  /\ NoClients
  /\ rooms = [c \in {} |-> 0]
  /\ adapter = [c \in Codes |-> {}]
  /\ sockets = 0
  /\ connected = {}
  /\ out = <<>>
  /\ last = [op |-> "listen", id |-> 0, room |-> 0, engine |-> FALSE]
  /\ handled = 0
  /\ running = TRUE

\* a game about to start: Ann has created room 1000, Bob has just joined
\* it, and the count of intents starts here
InitGame ==
  /\ NoClients
  /\ rooms = (FirstCode :>
               [players |-> <<[id |-> 1, color |-> "white", name |-> "Ann"],
                              [id |-> 2, color |-> "black", name |-> "Bob"]>>,
                game |-> NewChess,
                gameState |-> "playing"])
  /\ adapter = [c \in Codes |-> IF c = FirstCode THEN {1, 2} ELSE {}]
  /\ sockets = 2
  /\ connected = {1, 2}
  /\ out = <<Emit(ToSelf(2), "room_joined",
                  [room_code |-> FirstCode, player_color |-> "black",
                   opponent |-> "Ann", status |-> "playing"]),
             Emit({1}, "opponent_joined", [opponent |-> "Bob", status |-> "playing"])>>
  /\ last = [op |-> "join_room", id |-> 2, room |-> FirstCode, engine |-> FALSE]
  /\ handled = 0
  /\ running = TRUE

\* a game nine plies old: in room 1000 Ann's pawn stands on e7, Bob has
\* just played a5, and the count of intents starts here
InitPromo ==
  /\ NoClients
  /\ rooms = (FirstCode :>
               [players |-> <<[id |-> 1, color |-> "white", name |-> "Ann"],
                              [id |-> 2, color |-> "black", name |-> "Bob"]>>,
                game |-> PromoLine,
                gameState |-> "playing"])
  /\ adapter = [c \in Codes |-> IF c = FirstCode THEN {1, 2} ELSE {}]
  /\ sockets = 2
  /\ connected = {1, 2}
  /\ out = <<Emit({1, 2}, "chess_move",
                  [from |-> "a6", to |-> "a5", promotion |-> "q",
                   player |-> "Bob", color |-> "black"])>>
  /\ last = [op |-> "make_move", id |-> 2, room |-> FirstCode, engine |-> TRUE]
  /\ handled = 0
  /\ running = TRUE

(* ---------------------------- handlers -------------------------------- *)
connection ==
  /\ running
  /\ sockets < NumConns
  /\ sockets' = sockets + 1
  /\ connected' = connected \cup {sockets + 1}
  /\ out' = <<>>
  /\ last' = [op |-> "connection", id |-> sockets + 1, room |-> 0, engine |-> FALSE]
  /\ UNCHANGED <<rooms, adapter, handled, running>>
  /\ UNCHANGED clientVars

create_room(id, playerName, roomId) ==
  /\ running
  /\ id \in connected
  /\ rooms' = SetRoom(rooms, roomId,
                [players |-> <<[id |-> id, color |-> "white", name |-> playerName]>>,
                 game |-> NewChess,
                 gameState |-> "waiting"])
  /\ adapter' = [adapter EXCEPT ![roomId] = @ \cup {id}]
  /\ out' = <<Emit(ToSelf(id), "room_created",
                   [room_code |-> roomId, player_color |-> "white", status |-> "waiting"])>>
  /\ last' = [op |-> "create_room", id |-> id, room |-> roomId, engine |-> FALSE]
  /\ UNCHANGED <<sockets, connected, running>>

\* the full-room test off by one
RoomIsFull_off(room) == Len(room.players) > 2

\* Object.keys(room.players).length >= 2
RoomIsFull(room) == Len(room.players) >= 2

\* the member test left out
AlreadyInRoom_never(room, id) == HasPlayer(room, id) /\ id \notin Conns

\* playerIds.includes(socket.id)
AlreadyInRoom(room, id) == HasPlayer(room, id)

join_room(id, room_id, player_name) ==
  /\ running
  /\ id \in connected
  /\ last' = [op |-> "join_room", id |-> id, room |-> room_id, engine |-> FALSE]
  /\ UNCHANGED <<sockets, connected, running>>
  /\ IF room_id \notin DOMAIN rooms
     THEN /\ out' = <<Error(id, "Room not found")>>
          /\ UNCHANGED <<rooms, adapter>>
     ELSE LET room == rooms[room_id]
              playerIds == PlayerIds(room)
          IN  IF RoomIsFull(room)
              THEN /\ out' = <<Error(id, "Room is full")>>
                   /\ UNCHANGED <<rooms, adapter>>
              ELSE IF AlreadyInRoom(room, id)
              THEN /\ out' = <<Error(id, "You are already in this room")>>
                   /\ UNCHANGED <<rooms, adapter>>
              ELSE \* a live room always has a player: the last one to
                   \* leave deletes it, so playerIds[0] is defined
                   LET opponentId == playerIds[1]
                       opponentName == PlayerOf(room, opponentId).name
                       joinedRoom ==
                         [room EXCEPT
                            !.players = Append(@, [id |-> id, color |-> "black",
                                                   name |-> player_name]),
                            !.gameState = "playing"]
                   IN  /\ rooms' = SetRoom(rooms, room_id, joinedRoom)
                       /\ adapter' = [adapter EXCEPT ![room_id] = @ \cup {id}]
                       /\ out' = <<Emit(ToSelf(id), "room_joined",
                                        [room_code |-> room_id, player_color |-> "black",
                                         opponent |-> opponentName, status |-> "playing"]),
                                   Emit(ToRoomExcept(adapter', room_id, id), "opponent_joined",
                                        [opponent |-> player_name, status |-> "playing"])>>

\* the turn test left out
IsTurn_any(player, game) == player.color \in {"white", "black"}

\* the turn test with the two colours swapped
IsTurn_swapped(player, game) ==
  player.color = (IF turn(game) = "w" THEN "black" ELSE "white")

\* player.color === (playerRoom.game.turn() === 'w' ? 'white' : 'black')
IsTurn(player, game) ==
  player.color = (IF turn(game) = "w" THEN "white" ELSE "black")

\* move.promotion || 'q'
PromotionOrQ(move) == IF move.promotion = "undefined" THEN "q" ELSE move.promotion

\* an exception leaves the handler: nothing catches it and node exits,
\* taking the room table and every connection with it
Crash ==
  /\ rooms' = [c \in {} |-> 0]
  /\ adapter' = [c \in Codes |-> {}]
  /\ connected' = {}
  /\ out' = <<>>
  /\ running' = FALSE

make_move(id, move) ==
  /\ running
  /\ id \in connected
  /\ UNCHANGED sockets
  /\ \E roomId \in {FindRoom(rooms, id)} :
         IF roomId = 0
         THEN /\ out' = <<Error(id, "Not in a game")>>
              /\ last' = [op |-> "make_move", id |-> id, room |-> 0, engine |-> FALSE]
              /\ UNCHANGED <<rooms, adapter, connected, running>>
         ELSE \E playerRoom \in {rooms[roomId]} :
              \E player \in {PlayerOf(playerRoom, id)} :
                  IF IsTurn(player, playerRoom.game)
                  THEN \E result \in {ChessMove(playerRoom.game, move)} :
                           /\ last' = [op |-> "make_move", id |-> id,
                                       room |-> roomId, engine |-> TRUE]
                           /\ IF result # Null
                              THEN /\ rooms' = [rooms EXCEPT ![roomId].game = result]
                                   /\ out' = <<Emit(ToRoom(adapter, roomId), "chess_move",
                                                    [from |-> move.sq[1],
                                                     to |-> move.sq[2],
                                                     promotion |-> PromotionOrQ(move),
                                                     player |-> player.name,
                                                     color |-> player.color])>>
                                   /\ UNCHANGED <<adapter, connected, running>>
                              ELSE \* chess.js before 1.0 returns null here; from
                                   \* 1.0 on (the API the client code uses) it throws
                                   \/ /\ out' = <<Error(id, "Invalid move")>>
                                      /\ UNCHANGED <<rooms, adapter, connected, running>>
                                   \/ Crash
                  ELSE /\ out' = <<Error(id, "Not your turn")>>
                       /\ last' = [op |-> "make_move", id |-> id,
                                   room |-> roomId, engine |-> FALSE]
                       /\ UNCHANGED <<rooms, adapter, connected, running>>

offer_draw(id) ==
  /\ running
  /\ id \in connected
  /\ UNCHANGED <<rooms, adapter, sockets, connected, running>>
  /\ \E roomId \in {FindRoom(rooms, id)} :
         /\ last' = [op |-> "offer_draw", id |-> id, room |-> roomId, engine |-> FALSE]
         /\ IF roomId = 0
            THEN out' = <<>>
            ELSE LET opponentId == FindOpponent(rooms[roomId], id)
                 IN  IF opponentId # 0
                     THEN out' = <<Emit(ToSocket(connected, opponentId), "draw_offered",
                                        [none |-> TRUE])>>
                     ELSE out' = <<>>

\* the response taken for an agreement whatever it says
DrawAgreed_any(accepted) == accepted \in BOOLEAN

\* if (accepted)
DrawAgreed(accepted) == accepted

draw_response(id, accepted) ==
  /\ running
  /\ id \in connected
  /\ UNCHANGED <<adapter, sockets, connected, running>>
  /\ \E roomId \in {FindRoom(rooms, id)} :
         /\ last' = [op |-> "draw_response", id |-> id, room |-> roomId, engine |-> FALSE]
         /\ IF roomId = 0
            THEN /\ out' = <<>>
                 /\ UNCHANGED rooms
            ELSE LET opponentId == FindOpponent(rooms[roomId], id)
                     response == Emit(ToSocket(connected, opponentId), "draw_response",
                                      [accepted |-> accepted])
                 IN  IF opponentId = 0
                     THEN /\ out' = <<>>
                          /\ UNCHANGED rooms
                     ELSE IF DrawAgreed(accepted)
                     THEN /\ rooms' = [rooms EXCEPT ![roomId].gameState = "finished"]
                          /\ out' = <<response,
                                      Emit(ToRoom(adapter, roomId), "game_ended",
                                           [result |-> "draw",
                                            reason |-> "Draw by agreement"])>>
                     ELSE /\ out' = <<response>>
                          /\ UNCHANGED rooms

resign_game(id) ==
  /\ running
  /\ id \in connected
  /\ UNCHANGED <<adapter, sockets, connected, running>>
  /\ \E roomId \in {FindRoom(rooms, id)} :
         /\ last' = [op |-> "resign_game", id |-> id, room |-> roomId, engine |-> FALSE]
         /\ IF roomId = 0
            THEN /\ out' = <<>>
                 /\ UNCHANGED rooms
            ELSE LET opponentId == FindOpponent(rooms[roomId], id)
                 IN  IF opponentId # 0
                     THEN /\ out' = <<Emit(ToSocket(connected, opponentId),
                                           "opponent_resigned", [none |-> TRUE])>>
                          /\ rooms' = [rooms EXCEPT ![roomId].gameState = "finished"]
                     ELSE /\ out' = <<>>
                          /\ UNCHANGED rooms

\* room.players[socket.id]?.name || 'Unknown'
NameOrUnknown(room, id) ==
  IF HasPlayer(room, id) THEN PlayerOf(room, id).name ELSE "Unknown"

\* room.players[socket.id]?.color || 'unknown'
ColorOrUnknown(room, id) ==
  IF HasPlayer(room, id) THEN PlayerOf(room, id).color ELSE "unknown"

\* socket.io removes a closing socket from every room it joined before the
\* 'disconnect' listeners run
LeaveAll(ad, id) == [c \in DOMAIN ad |-> ad[c] \ {id}]

disconnect(id) ==
  /\ running
  /\ id \in connected
  /\ connected' = connected \ {id}
  /\ adapter' = LeaveAll(adapter, id)
  /\ UNCHANGED <<sockets, running>>
  /\ \E roomId \in {FindRoom(rooms, id)} :
         /\ last' = [op |-> "disconnect", id |-> id, room |-> roomId, engine |-> FALSE]
         /\ IF roomId = 0
            THEN /\ out' = <<>>
                 /\ UNCHANGED rooms
            ELSE LET room == RemovePlayer(rooms[roomId], id)
                 IN  /\ out' = <<Emit(ToRoomExcept(adapter', roomId, id),
                                      "player_disconnected",
                                      [player |-> NameOrUnknown(room, id),
                                       color |-> ColorOrUnknown(room, id),
                                       game_state |-> "finished"])>>
                     /\ rooms' = IF Len(room.players) = 0
                                 THEN DeleteRoom(rooms, roomId)
                                 ELSE SetRoom(rooms, roomId, room)

(* ----------------------------- client --------------------------------- *)
\* GameBoard in online mode (src/unnamed/part_003): the Chess instance of
\* useChessEngine, its gameHistory and isViewingHistory, the two clocks and
\* isGameOver of GameBoard, and playerColor of useOnlineGame.
NewClient(color) ==
  [playerColor |-> color, game |-> NewChess, gameHistory |-> <<>>,
   isViewingHistory |-> FALSE, whiteTime |-> StartTime, blackTime |-> StartTime,
   isGameOver |-> FALSE]

\* currentPlayer: game.turn() === 'w' ? 'white' : 'black'
currentPlayer(cl) == IF turn(cl.game) = "w" THEN "white" ELSE "black"

\* useChessEngine.makeMove(from, to): game.move({from, to, promotion: 'q'})
\* inside try/catch, then updateGameState; the client unchanged when the
\* engine refuses the move
makeMove(cl, sq) ==
  LET result == ChessMove(cl.game, [sq |-> sq, promotion |-> "q"])
  IN  IF result = Null
      THEN cl
      ELSE [cl EXCEPT !.game = result,
                      !.gameHistory = result,
                      !.isGameOver = @ \/ isCheckmate(result)]

\* socket.emit(ev, data) on the client
Send(c, msg) == [uplink EXCEPT ![c] = Append(@, msg)]

\* a Room has just been joined: both browsers show the board, clocks full
InitSync ==
  /\ rooms = (FirstCode :>
               [players |-> <<[id |-> 1, color |-> "white", name |-> "Ann"],
                              [id |-> 2, color |-> "black", name |-> "Bob"]>>,
                game |-> NewChess,
                gameState |-> "playing"])
  /\ adapter = [c \in Codes |-> IF c = FirstCode THEN {1, 2} ELSE {}]
  /\ sockets = 2
  /\ connected = {1, 2}
  /\ out = <<Emit(ToSelf(2), "room_joined",
                  [room_code |-> FirstCode, player_color |-> "black",
                   opponent |-> "Ann", status |-> "playing"]),
             Emit({1}, "opponent_joined", [opponent |-> "Bob", status |-> "playing"])>>
  /\ last = [op |-> "join_room", id |-> 2, room |-> FirstCode, engine |-> FALSE]
  /\ handled = 0
  /\ running = TRUE
  /\ stockfish = NewStockfish
  /\ clients = (1 :> NewClient("white")) @@ (2 :> NewClient("black"))
  /\ uplink = (1 :> <<>>) @@ (2 :> <<>>)
  /\ inbox = (1 :> <<>>) @@ (2 :> <<>>)

\* GameBoard.handleSelectSquare ending in a move: the two clicks that pick
\* a piece and one of its valid targets
handleSelectSquare(c, sq) ==
  LET cl == clients[c]
  IN  /\ c \in connected
      /\ ~cl.isViewingHistory
      /\ currentPlayer(cl) = cl.playerColor
      /\ sq \in LegalMoves(cl.game)
      /\ clients' = [clients EXCEPT ![c] = makeMove(cl, sq)]
      \* sendMove({ from: move.from, to: move.to })
      /\ uplink' = Send(c, [ev |-> "make_move",
                            move |-> [sq |-> sq, promotion |-> "undefined"]])
      /\ UNCHANGED inbox
      /\ UNCHANGED <<serverVars, stockfish>>

\* useChessEngine.navigateToMove(moveIndex): the Chess instance is reset
\* and the first moveIndex + 1 moves of gameHistory are replayed on it
navigateToMove(c, moveIndex) ==
  LET cl == clients[c]
  IN  /\ moveIndex \in 0 .. Len(cl.gameHistory) - 1
      /\ clients' = [clients EXCEPT ![c] =
                       [cl EXCEPT
                          !.game = SubSeq(cl.gameHistory, 1, moveIndex + 1),
                          !.isViewingHistory = moveIndex < Len(cl.gameHistory) - 1]]
      /\ clients' # clients
      /\ UNCHANGED <<uplink, inbox>>
      /\ UNCHANGED <<serverVars, stockfish>>

\* GameBoard.handleResign in online mode: resignOnline()
handleResign(c) ==
  /\ c \in connected
  /\ ~clients[c].isGameOver
  \* the button is pressed again only once the last intent has gone out
  /\ uplink[c] = <<>>
  /\ uplink' = Send(c, [ev |-> "resign_game"])
  /\ UNCHANGED <<clients, inbox>>
  /\ UNCHANGED <<serverVars, stockfish>>

\* the setInterval callback of the timer effect: one second off the clock
\* of currentPlayer; at zero handleGameOver("Time's up! ...")
TimerTick(c) ==
  LET cl == clients[c]
      white == currentPlayer(cl) = "white"
      newTime == (IF white THEN cl.whiteTime ELSE cl.blackTime) - 1
  IN  /\ ~cl.isGameOver
      /\ clients' = [clients EXCEPT ![c] =
                       [cl EXCEPT
                          !.whiteTime = IF white THEN newTime ELSE @,
                          !.blackTime = IF white THEN @ ELSE newTime,
                          !.isGameOver = newTime <= 0]]
      /\ UNCHANGED <<uplink, inbox>>
      /\ UNCHANGED <<serverVars, stockfish>>

\* the listeners of useOnlineGame on one event
OnEvent(cl, e) ==
  IF e.ev = "chess_move"
  THEN \* GameBoard.handleMoveReceived
       makeMove(cl, <<e.data.from, e.data.to>>)
  ELSE IF e.ev \in {"opponent_resigned", "game_ended", "player_disconnected"}
  THEN \* onGameOver
       [cl EXCEPT !.isGameOver = TRUE]
  ELSE \* 'error': a toast
       cl

\* the browser takes the next event off its socket
Receive(c) ==
  /\ inbox[c] # <<>>
  /\ clients' = [clients EXCEPT ![c] = OnEvent(@, Head(inbox[c]))]
  /\ inbox' = [inbox EXCEPT ![c] = Tail(@)]
  /\ UNCHANGED uplink
  /\ UNCHANGED <<serverVars, stockfish>>

\* the emit calls of `o` that reach socket d, as events on d's socket
EventsFor(o, d) ==
  LET mine == SelectSeq(o, LAMBDA e : d \in e.to)
  IN  [i \in 1..Len(mine) |-> [ev |-> mine[i].ev, data |-> mine[i].data]]

\* the server takes the next intent of socket c off the wire, runs its
\* handler, and the events it emits travel to the browsers
Serve(c) ==
  /\ uplink[c] # <<>>
  /\ handled < MaxIntents
  /\ handled' = handled + 1
  /\ LET msg == Head(uplink[c])
     IN  IF msg.ev = "make_move" THEN make_move(c, msg.move) ELSE resign_game(c)
  /\ uplink' = [uplink EXCEPT ![c] = Tail(@)]
  /\ inbox' = [d \in DOMAIN inbox |-> inbox[d] \o EventsFor(out', d)]
  /\ UNCHANGED <<clients, stockfish>>

(* ------------------------ Stockfish manager --------------------------- *)
\* StockfishManager (src/unnamed/part_003:1-73). A promise returned by
\* getBestMove is an entry of `promises` that counts the calls of its
\* resolve and of its reject; bestMoveResolver and bestMoveRejecter hold the
\* index of the promise they belong to, 0 for null.
Depths == {"3", "15"}
WorkerLines ==
  {<<"readyok">>, <<"info">>, <<"bestmove", "e2e4">>, <<"bestmove", "g8f6">>}

NewPromise == [resolves |-> 0, rejects |-> 0, value |-> ""]

\* this.worker?.postMessage(message)
PostMessage(sf, msgs) == IF sf.worker THEN sf.posted \o msgs ELSE sf.posted

\* the test that forgets the request already waiting
Busy_ready(sf) == ~sf.isReady

\* !this.isReady || this.bestMoveResolver
Busy(sf) == ~sf.isReady \/ sf.bestMoveResolver # 0

\* line.startsWith('bestmove')
StartsWithBestmove(line) == line[1] = "bestmove"

getBestMove(fen, depth) ==
  LET sf == stockfish
      p == Len(sf.promises) + 1
  IN  /\ p <= MaxRequests
      /\ stockfish' =
           IF Busy(sf)
           THEN [sf EXCEPT
                   !.promises = Append(@, [NewPromise EXCEPT !.rejects = 1]),
                   !.event = [op |-> "getBestMove", line |-> <<>>]]
           ELSE [sf EXCEPT
                   !.promises = Append(@, NewPromise),
                   !.bestMoveResolver = p,
                   !.bestMoveRejecter = p,
                   !.posted = PostMessage(sf, <<[cmd |-> "ucinewgame", arg |-> ""],
                                                [cmd |-> "position", arg |-> fen],
                                                [cmd |-> "go", arg |-> depth]>>),
                   !.event = [op |-> "getBestMove", line |-> <<>>]]
      /\ UNCHANGED <<serverVars, clients, uplink, inbox>>

\* worker.onmessage
handleMessage(line) ==
  LET sf == stockfish
      seen == [sf EXCEPT !.event = [op |-> "handleMessage", line |-> line]]
  IN  /\ sf.worker
      /\ stockfish' =
           IF line = <<"readyok">>
           THEN [seen EXCEPT !.isReady = TRUE]
           ELSE IF StartsWithBestmove(line) /\ sf.bestMoveResolver # 0
           THEN [seen EXCEPT
                   !.promises[sf.bestMoveResolver].resolves = @ + 1,
                   !.promises[sf.bestMoveResolver].value = line[2],
                   !.bestMoveResolver = 0,
                   !.bestMoveRejecter = 0]
           ELSE seen
      /\ UNCHANGED <<serverVars, clients, uplink, inbox>>

\* worker.onerror
handleError ==
  LET sf == stockfish
      seen == [sf EXCEPT !.event = [op |-> "handleError", line |-> <<>>]]
  IN  /\ sf.worker
      /\ stockfish' =
           IF sf.bestMoveRejecter # 0
           THEN [seen EXCEPT
                   !.promises[sf.bestMoveRejecter].rejects = @ + 1,
                   !.bestMoveResolver = 0,
                   !.bestMoveRejecter = 0]
           ELSE seen
      /\ UNCHANGED <<serverVars, clients, uplink, inbox>>

\* terminate(): the worker is gone and nothing is heard from it again
terminate ==
  /\ stockfish.worker
  /\ stockfish' = [stockfish EXCEPT !.worker = FALSE,
                                    !.event = [op |-> "terminate", line |-> <<>>]]
  /\ UNCHANGED <<serverVars, clients, uplink, inbox>>

(* ------------------------- reading the state -------------------------- *)
Members(room) == {room.players[i].id : i \in 1..Len(room.players)}
ColorsOf(room, id) ==
  {room.players[i].color : i \in {j \in 1..Len(room.players) : room.players[j].id = id}}
NamesIn(room, id) ==
  {room.players[i].name : i \in {j \in 1..Len(room.players) : room.players[j].id = id}}
WithColor(room, color) == {i \in 1..Len(room.players) : room.players[i].color = color}
SideToMove(game) == IF Len(game) % 2 = 0 THEN "white" ELSE "black"
\* the emit calls of `o` that reach socket id with event ev
Received(o, id, ev) == {i \in 1..Len(o) : id \in o[i].to /\ o[i].ev = ev}
\* every socket some emit call of `o` reaches
Reached(o) == UNION {o[i].to : i \in 1..Len(o)}
\* the step is a make_move of socket id resolved against room r
MoveStep(id, r) ==
  /\ last'.op = "make_move" /\ last'.id = id /\ last'.room = r
  /\ r \in DOMAIN rooms /\ id \in Members(rooms[r])

(* ------------------------------ C1 ------------------------------------ *)
\* C1: a make_move by a member of the room it is resolved against, whose
\* colour is not the side to move of that room's game, emits exactly one
\* error "Not your turn" to the caller and nothing else, does not call
\* game.move, and leaves the room table as it was.
C1_NotYourTurn ==
  [][\A id \in Conns, r \in Codes :
       (MoveStep(id, r) /\ SideToMove(rooms[r].game) \notin ColorsOf(rooms[r], id))
       => /\ out' = <<[to |-> {id}, ev |-> "error",
                       data |-> [message |-> "Not your turn"]]>>
          /\ ~last'.engine
          /\ rooms' = rooms]_vars

\* a player of a two-player room has just been told it is not their turn
C1_Witness ==
  /\ last.op = "make_move"
  /\ last.room \in DOMAIN rooms
  /\ Len(rooms[last.room].players) = 2
  /\ Len(out) = 1 /\ out[1].ev = "error"
  /\ out[1].data.message = "Not your turn"
  /\ SideToMove(rooms[last.room].game) \notin ColorsOf(rooms[last.room], last.id)

(* ------------------------------ C2 ------------------------------------ *)
\* C2: a make_move with a move that is legal in the room's game, sent by a
\* member whose colour is the side to move, appends exactly that one move
\* to the game, and every connected member of the room receives exactly one
\* chess_move; all chess_move events of the step carry the move's from and
\* to, its promotion (or 'q'), and the mover's name and colour.
C2_LegalMoveBroadcast ==
  [][\A id \in {last'.id} \cap Conns, r \in {last'.room} \cap Codes :
       (MoveStep(id, r) /\ SideToMove(rooms[r].game) \in ColorsOf(rooms[r], id))
       => \A sq \in LegalMoves(rooms[r].game), promotion \in Promotions :
            LET move == [sq |-> sq, promotion |-> promotion]
            IN  (Matches(rooms[r].game, move) /\ make_move(id, move))
                => /\ r \in DOMAIN rooms'
                   /\ rooms'[r].game = Append(rooms[r].game,
                                             Recorded(rooms[r].game, move.sq, move.promotion))
                   /\ \A m \in Members(rooms[r]) \cap connected :
                        Cardinality(Received(out', m, "chess_move")) = 1
                   /\ \A i \in 1..Len(out') :
                        /\ out'[i].ev = "chess_move"
                        /\ out'[i].data.from = move.sq[1]
                        /\ out'[i].data.to = move.sq[2]
                        /\ out'[i].data.promotion
                             = (IF move.promotion = "undefined" THEN "q" ELSE move.promotion)
                        /\ {out'[i].data.player} = NamesIn(rooms[r], id)
                        /\ {out'[i].data.color} = ColorsOf(rooms[r], id)]_vars

\* Black's reply has just been applied in a room whose two members are both
\* connected, and both received it
C2_Witness ==
  /\ last.op = "make_move" /\ last.engine
  /\ last.room \in DOMAIN rooms
  /\ Len(rooms[last.room].players) = 2
  /\ Members(rooms[last.room]) \subseteq connected
  /\ Len(rooms[last.room].game) = 2
  /\ \A m \in Members(rooms[last.room]) :
       Cardinality(Received(out, m, "chess_move")) = 1

(* ------------------------------ C3 ------------------------------------ *)
\* C3: the game of a room that exists before and after a step, and was not
\* replaced by a create_room drawing its code, changes only in a make_move
\* resolved against that room, sent by a member whose colour is the side to
\* move; the step appends one move, so the k-th accepted move of a room is
\* White's for odd k and Black's for even k.
C3_OnlyAcceptedMoves ==
  [][\A r \in Codes :
       (/\ r \in DOMAIN rooms /\ r \in DOMAIN rooms'
        /\ ~(last'.op = "create_room" /\ last'.room = r)
        /\ rooms'[r].game # rooms[r].game)
       => /\ last'.op = "make_move" /\ last'.room = r /\ last'.engine
          /\ SideToMove(rooms[r].game) \in ColorsOf(rooms[r], last'.id)
          /\ Len(rooms'[r].game) = Len(rooms[r].game) + 1
          /\ SubSeq(rooms'[r].game, 1, Len(rooms[r].game)) = rooms[r].game
          /\ \A i \in 1..Len(out') :
               out'[i].ev = "chess_move" =>
                 out'[i].data.color = SideToMove(rooms[r].game)]_vars

\* a room in which White, Black and White again have moved
C3_Witness ==
  \E r \in DOMAIN rooms :
    /\ Len(rooms[r].game) = 3
    /\ last.op = "make_move" /\ last.room = r
    /\ \E i \in 1..Len(out) : out[i].ev = "chess_move" /\ out[i].data.color = "white"

(* ------------------------------ C4 ------------------------------------ *)
\* C4: a make_move by a member of a room whose gameState is not 'playing'
\* (waiting or finished) emits exactly one error "Not in a game" to the
\* caller and leaves the room table as it was.
C4_NotInGameUnlessPlaying ==
  [][\A id \in Conns, r \in Codes :
       (MoveStep(id, r) /\ rooms[r].gameState # "playing")
       => /\ out' = <<[to |-> {id}, ev |-> "error",
                       data |-> [message |-> "Not in a game"]]>>
          /\ rooms' = rooms]_vars

(* ------------------------------ C5 ------------------------------------ *)
\* C5: the gameState of a room that exists before and after a step, and was
\* not replaced by a create_room drawing its code, never goes back: finished
\* stays finished, and playing never becomes waiting.
C5_PhaseMonotonic ==
  [][\A r \in Codes :
       (/\ r \in DOMAIN rooms /\ r \in DOMAIN rooms'
        /\ ~(last'.op = "create_room" /\ last'.room = r))
       => /\ rooms[r].gameState = "finished" => rooms'[r].gameState = "finished"
          /\ rooms[r].gameState = "playing" => rooms'[r].gameState # "waiting"]_vars

(* ------------------------------ C6 ------------------------------------ *)
\* C6: every socket id is a key of the players of at most one room.
C6_OneRoomPerConnection ==
  \A id \in Conns :
    Cardinality({r \in DOMAIN rooms : id \in Members(rooms[r])}) <= 1

(* ------------------------------ C7 ------------------------------------ *)
\* C7: a room that has left 'waiting' never holds two players of the same
\* colour, and when it holds two players they are one white and one black.
C7_OneWhiteOneBlack ==
  \A r \in DOMAIN rooms :
    rooms[r].gameState # "waiting"
    => /\ Cardinality(WithColor(rooms[r], "white")) <= 1
       /\ Cardinality(WithColor(rooms[r], "black")) <= 1
       /\ Len(rooms[r].players) = 2
            => /\ Cardinality(WithColor(rooms[r], "white")) = 1
               /\ Cardinality(WithColor(rooms[r], "black")) = 1

(* ------------------------------ C8 ------------------------------------ *)
\* C8: no room has more than two players; a join_room on a room that has
\* two players emits exactly one error "Room is full" to the caller and
\* nothing else, and leaves the room table as it was.
C8_RoomFull ==
  [][/\ \A r \in DOMAIN rooms' : Len(rooms'[r].players) <= 2
     /\ \A id \in Conns, r \in Codes :
          (/\ last'.op = "join_room" /\ last'.id = id /\ last'.room = r
           /\ r \in DOMAIN rooms /\ Len(rooms[r].players) = 2)
          => /\ out' = <<[to |-> {id}, ev |-> "error",
                          data |-> [message |-> "Room is full"]]>>
             /\ rooms' = rooms]_vars

\* a third socket has just been turned away from a room with two players
C8_Witness ==
  /\ last.op = "join_room"
  /\ last.room \in DOMAIN rooms
  /\ Len(rooms[last.room].players) = 2
  /\ last.id \notin Members(rooms[last.room])
  /\ Len(out) = 1 /\ out[1].ev = "error" /\ out[1].data.message = "Room is full"

(* ------------------------------ C9 ------------------------------------ *)
\* the step is the disconnect of socket id, resolved against room r
DisconnectStep(id, r) ==
  /\ last'.op = "disconnect" /\ last'.id = id /\ last'.room = r
  /\ r \in DOMAIN rooms /\ id \in Members(rooms[r])

\* C9: when a player of a two-player room disconnects, one player remains
\* and, if still connected, receives exactly one player_disconnected whose
\* player and color are the name and colour the leaving player had in
\* players before the removal.
C9_DisconnectNamesLeaver ==
  [][\A id \in Conns, r \in Codes :
       (DisconnectStep(id, r) /\ Len(rooms[r].players) = 2)
       => /\ r \in DOMAIN rooms'
          /\ Len(rooms'[r].players) = 1
          /\ \A m \in Members(rooms'[r]) \cap connected' :
               /\ Cardinality(Received(out', m, "player_disconnected")) = 1
               /\ \A i \in Received(out', m, "player_disconnected") :
                    /\ out'[i].data.player \in NamesIn(rooms[r], id)
                    /\ out'[i].data.color \in ColorsOf(rooms[r], id)]_vars

(* ------------------------------ C10 ----------------------------------- *)
\* C10: when a member of a 'playing' room disconnects while the other
\* member is still in players, the room's stored gameState is 'finished'
\* after the step, and a finished room stays finished while it exists.
C10_DisconnectFinishes ==
  [][\A r \in Codes :
       /\ \A id \in Conns :
            (/\ DisconnectStep(id, r)
             /\ rooms[r].gameState = "playing"
             /\ Len(rooms[r].players) = 2)
            => (r \in DOMAIN rooms' /\ rooms'[r].gameState = "finished")
       /\ (/\ r \in DOMAIN rooms /\ r \in DOMAIN rooms'
           /\ last'.op = "disconnect"
           /\ rooms[r].gameState = "finished")
          => rooms'[r].gameState = "finished"]_vars

(* ------------------------------ C11 ----------------------------------- *)
\* C11: when an accepted make_move leaves the room's game in checkmate, the
\* room's gameState is 'finished' after that step.
C11_MateFinishes ==
  [][\A r \in Codes :
       (/\ r \in DOMAIN rooms /\ r \in DOMAIN rooms'
        /\ last'.op = "make_move" /\ last'.room = r
        /\ rooms'[r].game # rooms[r].game
        /\ isCheckmate(rooms'[r].game))
       => rooms'[r].gameState = "finished"]_vars

(* ------------------------------ C12 ----------------------------------- *)
\* the step is a draw_response of socket id resolved against room r
ResponseStep(id, r) ==
  /\ last'.op = "draw_response" /\ last'.id = id /\ last'.room = r
  /\ r \in DOMAIN rooms /\ id \in Members(rooms[r])

\* C12: a draw_response with accepted = true that arrives when the room is
\* already 'finished' changes nothing and reaches nobody, so the draw is
\* agreed and announced once.
C12_DrawOnce ==
  [][\A id \in Conns, r \in Codes :
       (/\ ResponseStep(id, r)
        /\ rooms[r].gameState = "finished"
        /\ draw_response(id, TRUE))
       => /\ rooms' = rooms
          /\ Reached(out') = {}]_vars

(* ------------------------------ C13 ----------------------------------- *)
\* C13: a draw_response with accepted = true has no effect when no offer of
\* the other player is pending: when nothing but the create_room and the
\* join_room of the room has been handled, or when the handler that ran
\* just before was the caller's own offer_draw, the room stays 'playing'
\* and nobody receives anything.
C13_ResponseNeedsOffer ==
  [][\A id \in Conns, r \in Codes :
       (/\ ResponseStep(id, r)
        /\ rooms[r].gameState = "playing"
        /\ \/ handled = 2 /\ last.op = "join_room" /\ last.room = r
           \/ last.op = "offer_draw" /\ last.id = id /\ last.room = r
        /\ draw_response(id, TRUE))
       => /\ rooms'[r].gameState = "playing"
          /\ Reached(out') = {}]_vars

(* ------------------------------ C14 ----------------------------------- *)
\* the handler that ran last was a draw_response that told its one
\* recipient accepted = false
Declined ==
  /\ last.op = "draw_response"
  /\ Len(out) = 1 /\ out[1].ev = "draw_response" /\ ~out[1].data.accepted

\* C14: when A's offer_draw on a 'playing' room has just reached B and B
\* answers with accepted = false, A and nobody else receives one
\* draw_response with accepted = false, the room table is as it was and the
\* room stores no offer; and a legal move of the player on turn that
\* follows a declined offer is applied and broadcast.
C14_DeclineKeepsPlaying ==
  [][\A id \in Conns, r \in Codes :
       /\ (/\ ResponseStep(id, r)
           /\ last.op = "offer_draw" /\ last.room = r /\ last.id # id
           /\ Reached(out) = {id}
           /\ rooms[r].gameState = "playing"
           /\ draw_response(id, FALSE))
          => /\ Reached(out') = {last.id}
             /\ Cardinality(Received(out', last.id, "draw_response")) = 1
             /\ \A i \in 1..Len(out') :
                  out'[i].ev = "draw_response" /\ ~out'[i].data.accepted
             /\ rooms' = rooms
             /\ DOMAIN rooms'[r] = {"players", "game", "gameState"}
       /\ (/\ MoveStep(id, r)
           /\ Declined /\ last.room = r
           /\ rooms[r].gameState = "playing"
           /\ SideToMove(rooms[r].game) \in ColorsOf(rooms[r], id))
          => \A move \in Moves :
               (Matches(rooms[r].game, move) /\ make_move(id, move))
               => /\ rooms'[r].game = Append(rooms[r].game,
                                         Recorded(rooms[r].game, move.sq, move.promotion))
                  /\ rooms'[r].gameState = "playing"
                  /\ \A m \in Members(rooms[r]) \cap connected :
                       Cardinality(Received(out', m, "chess_move")) = 1]_vars

\* B has just declined and A, still playing, has been told so
C14_Witness ==
  /\ Declined
  /\ last.room \in DOMAIN rooms
  /\ rooms[last.room].gameState = "playing"
  /\ Len(rooms[last.room].players) = 2
  /\ Reached(out) = Members(rooms[last.room]) \ {last.id}

(* ------------------------------ C15 ----------------------------------- *)
\* C15: no room has zero players; when the only player of a room
\* disconnects, the room is deleted in that step; and a join_room on a code
\* that is not live gets the error "Room not found" and changes nothing.
C15_LastLeaverDeletes ==
  [][/\ \A r \in DOMAIN rooms' : Len(rooms'[r].players) > 0
     /\ \A id \in Conns, r \in Codes :
          /\ (/\ last'.op = "disconnect" /\ last'.id = id
              /\ r \in DOMAIN rooms /\ Members(rooms[r]) = {id})
             => r \notin DOMAIN rooms'
          /\ (/\ last'.op = "join_room" /\ last'.id = id /\ last'.room = r
              /\ r \notin DOMAIN rooms)
             => /\ out' = <<[to |-> {id}, ev |-> "error",
                             data |-> [message |-> "Room not found"]]>>
                /\ rooms' = rooms]_vars

(* ------------------------------ C16 ----------------------------------- *)
\* C16: create_room yields a code no live room holds, and every room that
\* was live before it is live afterwards with the same players, game and
\* gameState.
C16_FreshCode ==
  [][\A r \in Codes :
       (last'.op = "create_room" /\ last'.room = r)
       => /\ r \notin DOMAIN rooms
          /\ \A c \in DOMAIN rooms : c \in DOMAIN rooms' /\ rooms'[c] = rooms[c]]_vars

(* ------------------------------ C17 ----------------------------------- *)
\* the step is a join_room of socket id on code r
JoinStep(id, r) ==
  last'.op = "join_room" /\ last'.id = id /\ last'.room = r

\* the one emit call that tells socket id, and nobody else, `message`
Rejection(id, message) ==
  <<[to |-> {id}, ev |-> "error", data |-> [message |-> message]]>>

\* the step emits one error to socket id, nothing else, and leaves the
\* room table as it was
OneRejection(id) ==
  /\ Len(out') = 1 /\ out'[1].ev = "error" /\ out'[1].to = {id}
  /\ rooms' = rooms

\* C17: a join_room on a code that is not live, on a room with two players
\* or by a member of the room, a make_move by a socket that is in no room,
\* by the player who is not on turn, or with a move the engine does not
\* accept: each emits exactly one error to the caller, reaches no other
\* socket, and leaves every room's players, game and gameState as before.
C17_RejectionsLocal ==
  [][\A id \in Conns :
       /\ \A r \in Codes :
            (/\ JoinStep(id, r)
             /\ \/ r \notin DOMAIN rooms
                \/ Len(rooms[r].players) >= 2
                \/ id \in Members(rooms[r]))
            => OneRejection(id)
       /\ (last'.op = "make_move" /\ last'.id = id /\ last'.room = 0)
          => OneRejection(id)
       /\ \A r \in Codes :
            /\ (MoveStep(id, r) /\ SideToMove(rooms[r].game) \notin ColorsOf(rooms[r], id))
               => OneRejection(id)
            /\ (MoveStep(id, r) /\ SideToMove(rooms[r].game) \in ColorsOf(rooms[r], id))
               => \A move \in Moves :
                    (~Matches(rooms[r].game, move) /\ make_move(id, move))
                    => OneRejection(id)]_vars

(* ------------------------------ C18 ----------------------------------- *)
\* C18: a join_room on a live room with exactly one player, by a socket
\* that is not that player, appends the caller as 'black', sets gameState
\* to 'playing', emits room_joined (the code, 'black', the existing
\* player's name) to the caller only and opponent_joined (the caller's
\* name) to the existing player only, and leaves the game and the existing
\* player's entry as they were.
C18_JoinSecond ==
  [][\A id \in Conns, r \in Codes :
       (/\ JoinStep(id, r)
        /\ r \in DOMAIN rooms
        /\ Len(rooms[r].players) = 1
        /\ id \notin Members(rooms[r]))
       => LET old == rooms[r].players[1]
          IN  /\ r \in DOMAIN rooms'
              /\ Len(rooms'[r].players) = 2
              /\ rooms'[r].players[1] = old
              /\ rooms'[r].players[2].id = id
              /\ rooms'[r].players[2].color = "black"
              /\ rooms'[r].gameState = "playing"
              /\ rooms'[r].game = rooms[r].game
              /\ Len(out') = 2
              /\ \E i \in 1..2 :
                   /\ out'[i].ev = "room_joined"
                   /\ out'[i].to = {id}
                   /\ out'[i].data.room_code = r
                   /\ out'[i].data.player_color = "black"
                   /\ out'[i].data.opponent = old.name
              /\ \E i \in 1..2 :
                   /\ out'[i].ev = "opponent_joined"
                   /\ out'[i].to = {old.id} \cap connected
                   /\ out'[i].data.opponent = rooms'[r].players[2].name]_vars

(* ------------------------------ C19 ----------------------------------- *)
\* C19 as stated: a join_room by a socket that is a player of the target
\* room gets the error "You are already in this room", whether the room
\* has one or two players, and the room table stays as it was.
C19_MemberAlwaysAlreadyInRoom ==
  [][\A id \in Conns, r \in Codes :
       (JoinStep(id, r) /\ r \in DOMAIN rooms /\ id \in Members(rooms[r]))
       => /\ out' = Rejection(id, "You are already in this room")
          /\ rooms' = rooms]_vars

\* C19 amended: a join_room by a socket that is a player of the target room
\* gets the error "You are already in this room" when the room has one
\* player and the error "Room is full" when it has two; in both cases
\* nothing else is emitted and the room table stays as it was.
C19_MemberRejected ==
  [][\A id \in Conns, r \in Codes :
       (JoinStep(id, r) /\ r \in DOMAIN rooms /\ id \in Members(rooms[r]))
       => /\ out' = Rejection(id, IF Len(rooms[r].players) >= 2
                                  THEN "Room is full"
                                  ELSE "You are already in this room")
          /\ rooms' = rooms]_vars

\* a creator has just tried to join their own room, which is still waiting
\* with them as its only player
C19_Witness ==
  /\ last.op = "join_room"
  /\ last.room \in DOMAIN rooms
  /\ Members(rooms[last.room]) = {last.id}
  /\ rooms[last.room].gameState = "waiting"
  /\ out = Rejection(last.id, "You are already in this room")

(* ------------------------------ C20 ----------------------------------- *)
\* C20: an offer_draw by a player of a 'playing' room stores the caller in
\* the room as the pending offerer, emits draw_offered to the opponent and
\* to nobody else, and leaves players, game and gameState as they were.
C20_OfferRecorded ==
  [][\A id \in Conns, r \in Codes :
       (/\ last'.op = "offer_draw" /\ last'.id = id /\ last'.room = r
        /\ r \in DOMAIN rooms /\ id \in Members(rooms[r])
        /\ rooms[r].gameState = "playing")
       => /\ r \in DOMAIN rooms'
          /\ rooms'[r].players = rooms[r].players
          /\ rooms'[r].game = rooms[r].game
          /\ rooms'[r].gameState = rooms[r].gameState
          /\ Reached(out') = (Members(rooms[r]) \ {id}) \cap connected
          /\ \A i \in 1..Len(out') : out'[i].ev = "draw_offered"
          /\ "pendingDraw" \in DOMAIN rooms'[r]
          /\ rooms'[r].pendingDraw = id]_vars

(* ------------------------------ C21 ----------------------------------- *)
\* C21: a resign_game by a player of a 'playing' room sets the room's
\* gameState to 'finished', emits opponent_resigned to the opponent and to
\* nobody else, and leaves players and game as they were.
C21_ResignFinishes ==
  [][\A id \in Conns, r \in Codes :
       (/\ last'.op = "resign_game" /\ last'.id = id /\ last'.room = r
        /\ r \in DOMAIN rooms /\ id \in Members(rooms[r])
        /\ rooms[r].gameState = "playing")
       => /\ r \in DOMAIN rooms'
          /\ rooms'[r].gameState = "finished"
          /\ rooms'[r].players = rooms[r].players
          /\ rooms'[r].game = rooms[r].game
          /\ Reached(out') = (Members(rooms[r]) \ {id}) \cap connected
          /\ \A i \in 1..Len(out') : out'[i].ev = "opponent_resigned"]_vars

(* ------------------------------ C22 ----------------------------------- *)
\* socket id is a player of no room
InNoRoom(id) == \A r \in DOMAIN rooms : id \notin Members(rooms[r])

\* C22: when the caller is a player of no room, make_move emits the one
\* error "Not in a game" to the caller, offer_draw, draw_response and
\* resign_game emit nothing, and in all four the room table stays as it
\* was.
C22_OutsiderHasNoEffect ==
  [][\A id \in Conns :
       (/\ last'.id = id
        /\ last'.op \in {"make_move", "offer_draw", "draw_response", "resign_game"}
        /\ InNoRoom(id))
       => /\ rooms' = rooms
          /\ out' = IF last'.op = "make_move"
                    THEN Rejection(id, "Not in a game")
                    ELSE <<>>]_vars

\* a socket that is in no room has just been told so, next to another
\* connected socket that holds a room
C22_Witness ==
  /\ last.op = "make_move"
  /\ InNoRoom(last.id)
  /\ out = Rejection(last.id, "Not in a game")
  /\ \E r \in DOMAIN rooms : Members(rooms[r]) \cap connected # {}

C27_CreateRoom ==
  [][\A id \in Conns, r \in Codes :
       (last'.op = "create_room" /\ last'.id = id /\ last'.room = r)
       => /\ r \in DOMAIN rooms'
          /\ Len(rooms'[r].players) = 1
          /\ rooms'[r].players[1].id = id
          /\ rooms'[r].players[1].color = "white"
          /\ rooms'[r].players[1].name \in NamesOf(id)
          /\ rooms'[r].game = <<>>
          /\ rooms'[r].gameState = "waiting"
          /\ out' = <<[to |-> {id}, ev |-> "room_created",
                       data |-> [room_code |-> r, player_color |-> "white",
                                 status |-> "waiting"]]>>]_vars

\* a room has just been created while another socket is connected
C27_Witness ==
  /\ last.op = "create_room"
  /\ last.room \in DOMAIN rooms
  /\ Members(rooms[last.room]) = {last.id}
  /\ rooms[last.room].gameState = "waiting"
  /\ Reached(out) = {last.id}
  /\ connected \ {last.id} # {}

(* ------------------------------ C28 ----------------------------------- *)
\* C28: after the disconnect of a socket is handled, the socket is a
\* player of no room and no room has zero players, whatever rooms it had
\* created or joined.
C28_DisconnectCleansAll ==
  [][\A id \in Conns :
       (last'.op = "disconnect" /\ last'.id = id)
       => \A r \in DOMAIN rooms' :
            /\ id \notin Members(rooms'[r])
            /\ Len(rooms'[r].players) > 0]_vars

(* ------------------------------ C29 ----------------------------------- *)
\* the step is an offer_draw, draw_response or resign_game of socket id
\* resolved against room r
DrawOrResignStep(id, r) ==
  /\ last'.op \in {"offer_draw", "draw_response", "resign_game"}
  /\ last'.id = id /\ last'.room = r
  /\ r \in DOMAIN rooms /\ id \in Members(rooms[r])

\* C29: in a room whose gameState is 'finished', an offer_draw, a
\* draw_response or a resign_game of a player reaches nobody and leaves
\* the room table as it was.
C29_FinishedIsTerminal ==
  [][\A id \in Conns, r \in Codes :
       (DrawOrResignStep(id, r) /\ rooms[r].gameState = "finished")
       => /\ Reached(out') = {}
          /\ rooms' = rooms]_vars

(* ------------------------------ C30 ----------------------------------- *)
\* C30: in a room whose gameState is 'waiting', an offer_draw, a
\* draw_response (either answer) or a resign_game of the creator emits
\* nothing and leaves the room table as it was; and a join_room of another
\* socket that follows one of them on that room is admitted: the room has
\* two players, is 'playing', and the joiner is told room_joined.
C30_WaitingIgnoresDrawAndResign ==
  [][\A id \in Conns, r \in Codes :
       /\ (DrawOrResignStep(id, r) /\ rooms[r].gameState = "waiting")
          => /\ out' = <<>>
             /\ rooms' = rooms
       /\ (/\ JoinStep(id, r)
           /\ last.op \in {"offer_draw", "draw_response", "resign_game"}
           /\ last.room = r
           /\ r \in DOMAIN rooms
           /\ rooms[r].gameState = "waiting"
           /\ id \notin Members(rooms[r]))
          => /\ r \in DOMAIN rooms'
             /\ rooms'[r].gameState = "playing"
             /\ Len(rooms'[r].players) = 2
             /\ Cardinality(Received(out', id, "room_joined")) = 1]_vars

\* the creator, alone in a waiting room, has just resigned, offered or
\* answered a draw, and nothing came of it
C30_Witness ==
  /\ last.op \in {"offer_draw", "draw_response", "resign_game"}
  /\ last.room \in DOMAIN rooms
  /\ Members(rooms[last.room]) = {last.id}
  /\ rooms[last.room].gameState = "waiting"
  /\ out = <<>>

(* ------------------------------ C25 ----------------------------------- *)
\* C25: a make_move of the player on turn that takes the pawn from e7 to
\* d8 and carries no promotion piece is applied as a promotion to a queen:
\* the room's game records the move with the piece 'q', and the chess_move
\* event every player receives carries promotion 'q'.
C25_PromotionDefaultsToQueen ==
  [][\A id \in Conns, r \in Codes :
       (/\ MoveStep(id, r)
        /\ rooms[r].gameState = "playing"
        /\ SideToMove(rooms[r].game) \in ColorsOf(rooms[r], id)
        /\ PromotionMove \in LegalMoves(rooms[r].game)
        /\ make_move(id, [sq |-> PromotionMove, promotion |-> "undefined"]))
       => /\ r \in DOMAIN rooms'
          /\ rooms'[r].game = rooms[r].game \o <<<<"e7", "d8", "q">>>>
          /\ \A m \in Members(rooms[r]) \cap connected :
               \E i \in Received(out', m, "chess_move") :
                 out'[i].data.promotion = "q"]_vars

(* ------------------------------ C24 ----------------------------------- *)
\* nothing is on its way between the browsers and the server
Quiet == \A c \in DOMAIN clients : uplink[c] = <<>> /\ inbox[c] = <<>>

\* C24: whenever nothing is in flight and the two players of a room are
\* connected, the board of each player's browser, when it is not showing an
\* earlier move of the history, holds the room's game.
C24_Synchronized ==
  \A r \in DOMAIN rooms :
    (/\ running /\ Quiet
     /\ Len(rooms[r].players) = 2
     /\ Members(rooms[r]) \subseteq connected \cap DOMAIN clients)
    => \A c \in Members(rooms[r]) :
         ~clients[c].isViewingHistory => clients[c].game = rooms[r].game

(* ------------------------------ C26 ----------------------------------- *)
\* C26: in the step in which a clock of a browser reaches zero, the browser
\* emits resign_game to the server.
C26_ExpiryReported ==
  [][\A c \in DOMAIN clients :
       (\/ clients[c].whiteTime > 0 /\ clients'[c].whiteTime <= 0
        \/ clients[c].blackTime > 0 /\ clients'[c].blackTime <= 0)
       => /\ Len(uplink'[c]) = Len(uplink[c]) + 1
          /\ uplink'[c][Len(uplink'[c])].ev = "resign_game"]_vars

(* ------------------------------ C31 ----------------------------------- *)
\* C31: a join_room, make_move, offer_draw, draw_response, resign_game or
\* disconnect resolved against room a leaves every other room b in the
\* table with the same players, game and gameState, and reaches no socket
\* other than the caller that is a player of b and not of a.
C31_RoomsIsolated ==
  [][\A a \in Codes, b \in Codes :
       (/\ a # b
        /\ last'.op \in {"join_room", "make_move", "offer_draw",
                         "draw_response", "resign_game", "disconnect"}
        /\ last'.room = a
        /\ a \in DOMAIN rooms
        /\ b \in DOMAIN rooms)
       => /\ b \in DOMAIN rooms'
          /\ rooms'[b] = rooms[b]
          /\ \A c \in Reached(out') \ {last'.id} :
               c \in Members(rooms[b]) => c \in Members(rooms[a])]_vars

(* ------------------------------ C32 ----------------------------------- *)
\* C32: once a resign_game has set a room to 'finished' and nothing is in
\* flight any more, the browser of every connected player of the room, the
\* one that resigned included, shows the game as over.
C32_ResignSeenByBoth ==
  \A r \in DOMAIN rooms :
    (/\ running /\ Quiet
     /\ last.op = "resign_game" /\ last.room = r
     /\ rooms[r].gameState = "finished")
    => \A c \in Members(rooms[r]) \cap connected \cap DOMAIN clients :
         clients[c].isGameOver

(* ------------------------------ C33 ----------------------------------- *)
\* the calls made so far on the resolve and the reject of promise p
Settled(sf, p) == sf.promises[p].resolves + sf.promises[p].rejects

\* every promise but the new one is as it was
OthersKept(sf, after, p) ==
  \A q \in 1..Len(sf.promises) : q # p => after.promises[q] = sf.promises[q]

\* C33: at most one request waits: the promise bestMoveResolver and
\* bestMoveRejecter point to is the only one not settled, and no promise is
\* settled twice. A getBestMove before 'readyok' or while a request waits
\* is rejected once, posts nothing to the worker and leaves the waiting
\* request alone; a getBestMove when ready and idle becomes the waiting
\* request; a 'bestmove' line resolves the waiting request once, with its
\* move, and a worker error rejects it once, and both leave the manager idle.
C33_OneRequestInFlight ==
  [][LET sf == stockfish
         after == stockfish'
         new == Len(sf.promises) + 1
         p == sf.bestMoveResolver
     IN  /\ after.bestMoveResolver = after.bestMoveRejecter
         /\ \A q \in 1..Len(after.promises) :
              /\ Settled(after, q) <= 1
              /\ Settled(after, q) = 0 <=> q = after.bestMoveResolver
         /\ (after.event.op = "getBestMove" /\ Len(after.promises) = new)
            => /\ OthersKept(sf, after, new)
               /\ IF ~sf.isReady \/ p # 0
                  THEN /\ after.promises[new].rejects = 1
                       /\ after.promises[new].resolves = 0
                       /\ after.posted = sf.posted
                       /\ after.bestMoveResolver = p
                  ELSE /\ after.bestMoveResolver = new
                       /\ sf.worker => Len(after.posted) = Len(sf.posted) + 3
         /\ (/\ after.event.op = "handleMessage"
             /\ after.event.line[1] = "bestmove"
             /\ p # 0)
            => /\ after.promises[p].resolves = 1
               /\ after.promises[p].rejects = 0
               /\ after.promises[p].value = after.event.line[2]
               /\ OthersKept(sf, after, p)
               /\ after.bestMoveResolver = 0
         /\ (after.event.op = "handleError" /\ p # 0)
            => /\ after.promises[p].rejects = 1
               /\ after.promises[p].resolves = 0
               /\ OthersKept(sf, after, p)
               /\ after.bestMoveResolver = 0]_vars

\* a getBestMove has just been turned away while an earlier request waits
C33_Witness ==
  /\ stockfish.event.op = "getBestMove"
  /\ stockfish.bestMoveResolver # 0
  /\ Len(stockfish.promises) > stockfish.bestMoveResolver
  /\ stockfish.promises[Len(stockfish.promises)].rejects = 1

\* one more intent is taken off the wire
Handle ==
  /\ handled < MaxIntents
  /\ handled' = handled + 1
  /\ UNCHANGED clientVars

Next ==
  \/ connection
  \/ Handle /\ \E id \in Conns, roomId \in Codes : \E playerName \in NamesOf(id) :
        create_room(id, playerName, roomId)
  \/ Handle /\ \E id \in Conns, room_id \in Codes : \E player_name \in NamesOf(id) :
        join_room(id, room_id, player_name)
  \/ Handle /\ \E id \in Conns, move \in Moves : make_move(id, move)
  \/ Handle /\ \E id \in Conns : offer_draw(id)
  \/ Handle /\ \E id \in Conns, accepted \in BOOLEAN : draw_response(id, accepted)
  \/ Handle /\ \E id \in Conns : resign_game(id)
  \/ Handle /\ \E id \in Conns : disconnect(id)

Spec == Init /\ [][Next]_vars

\* the same server, followed from the start of a game
SpecGame == InitGame /\ [][Next]_vars

\* the same server, followed from a game in which a pawn can promote
SpecPromo == InitPromo /\ [][Next]_vars

\* two browsers running the repository's client play in one room
NextSync ==
  \/ \E c \in DOMAIN clients, sq \in WhiteMoves \cup BlackMoves : handleSelectSquare(c, sq)
  \/ \E c \in DOMAIN clients, moveIndex \in 0 .. 3 : navigateToMove(c, moveIndex)
  \/ \E c \in DOMAIN clients : handleResign(c)
  \/ \E c \in DOMAIN clients : TimerTick(c)
  \/ \E c \in DOMAIN clients : Receive(c)
  \/ \E c \in DOMAIN clients : Serve(c)

SpecSync == InitSync /\ [][NextSync]_vars

\* the Stockfish manager of one browser, its worker and its callers
NextStockfish ==
  \/ \E depth \in Depths : getBestMove("startpos", depth)
  \/ \E line \in WorkerLines : handleMessage(line)
  \/ handleError
  \/ terminate

SpecStockfish == Init /\ [][NextStockfish]_vars
====
